---- MODULE Spec2Model ----
(***************************************************************************)
(* Model of diagnostico_pc.py (class DiagnosticoPCAvancado): the one-shot  *)
(* full diagnostic (run_complete_diagnosis / diagnosis_thread /            *)
(* analyze_health_and_recommendations and the telemetry getters), the      *)
(* foreground event loop (Tk callbacks scheduled with root.after), and the *)
(* sampling loop (start_monitoring / monitoring_thread / stop / finish)    *)
(* with the CSV export of its buffer (save_monitoring_csv).                *)
(*                                                                         *)
(* Units.  Temperatures are whole degrees Celsius.  Percentages are kept   *)
(* in hundredths of a percent (Pct(80) = 8000), because the code compares  *)
(* some of them raw and others after formatting with ".1f" and parsing     *)
(* back; Fmt1 is that formatting and yields tenths of a percent.           *)
(***************************************************************************)
EXTENDS Integers, Sequences, FiniteSets, TLC

VARIABLES
    available_libs,   \* module global available_libs: [psutil, GPUtil]
    stressed,         \* environment: the subsystem whose readings vary
    alerts,           \* self.alerts
    recommendations,  \* self.recommendations
    hardware_text,    \* self.hardware_text holds text (TRUE) or is empty
    runs,             \* number of run_complete_diagnosis calls so far
    dpc,              \* position of each diagnosis_thread
    dlocal,           \* history of each diagnosis_thread: queries made, values read
    queue,            \* callbacks scheduled with root.after(0, ...), in order
    seen,             \* what the last foreground reader of the lists read
    display,          \* the StringVars of the real-time display
    snapshots,        \* history: the lists as each finished run left them
    monitoring,       \* self.monitoring
    monitoring_data,  \* self.monitoring_data: six lists
    monitoring_log,   \* self.monitoring_log: the lines inserted
    sessions,         \* number of start_monitoring calls so far
    mpc,              \* position of each monitoring_thread
    mlocal,           \* locals and history of each monitoring_thread
    presses,          \* number of presses of the monitoring button so far
    now,              \* wall clock, in seconds
    csv               \* save_monitoring_csv: its position and what it wrote

vars == <<available_libs, stressed, alerts, recommendations, hardware_text, runs, dpc,
          dlocal, queue, seen, snapshots, display, monitoring, monitoring_data,
          monitoring_log, sessions, mpc, mlocal, presses, now, csv>>

diagVars == <<alerts, recommendations, hardware_text, runs, dpc, dlocal, seen,
              snapshots>>

monVars == <<display, monitoring, monitoring_data, monitoring_log, sessions,
             mpc, mlocal, presses, now, csv>>

----------------------------------------------------------------------------
(* Bounds of the model *)

\* diagnosis runs requested in one behaviour
MaxRuns == 2

\* partitions psutil.disk_partitions() reports
MaxParts == 1

----------------------------------------------------------------------------
(* Threshold table and the literals of the threshold checks *)

cpu_warning == 75
cpu_critical == 85
gpu_warning == 80
gpu_critical == 90
disk_warning == 50
disk_critical == 60

Pct(n) == n * 100

\* f"{x:.1f}": a percentage in hundredths, rounded to tenths
Fmt1(h) == (h + 5) \div 10

\* float(s.replace("%", "")) > n, on the formatted tenths
Above(tenths, n) == tenths > n * 10

\* marks a key the snapshot dictionary does not hold
Absent == 0 - 1

\* the "N/A (sensores nao acessiveis)" marker of get_cpu_info
NotAccessible == 0 - 2

----------------------------------------------------------------------------
(* Sensor readings: what the provider libraries answer to one query *)

CpuTemps == {60, 75, 76, 85, 86}

\* psutil.sensors_temperatures(): raises, has no CPU sensor, or reads a value
CpuSensors ==
    {[kind |-> "raise", temp |-> 0], [kind |-> "nosensor", temp |-> 0]}
    \cup {[kind |-> "ok", temp |-> t] : t \in CpuTemps}

\* fail: cpu_percent / cpu_freq / cpuinfo raised before the sensors were read
CpuReadings ==
    {[fail |-> TRUE, uso |-> 0, sensor |-> [kind |-> "nosensor", temp |-> 0]]}
    \cup {[fail |-> FALSE, uso |-> u, sensor |-> s] :
             u \in {Pct(50), Pct(80), 8010}, s \in CpuSensors}

\* GPUtil.getGPUs(): raises, returns no GPU, or the first GPU's figures
GpuReadings ==
    {[kind |-> "raise", temp |-> 0, load |-> 0, vram |-> 0],
     [kind |-> "none", temp |-> 0, load |-> 0, vram |-> 0]}
    \cup {[kind |-> "ok", temp |-> t, load |-> l, vram |-> v] :
             t \in {70, 80, 81, 90, 91}, l \in {Pct(50), Pct(90), Pct(91)},
             v \in {Pct(50), Pct(91)}}

MemPercents == {Pct(50), Pct(80), Pct(81), Pct(85), Pct(86), Pct(90), Pct(91)}

\* psutil.virtual_memory() and psutil.swap_memory(); swap = Absent: no swap
MemReadings ==
    {[kind |-> "raise", percent |-> 0, swap |-> Absent]}
    \cup {[kind |-> "ok", percent |-> p, swap |-> s] :
             p \in MemPercents, s \in {Absent, Pct(50), Pct(51)}}

\* one partition: disk_usage raises PermissionError, or used/total*100
Partitions ==
    {[kind |-> "denied", used |-> 0]}
    \cup {[kind |-> "ok", used |-> u] : u \in {Pct(50), 8004, 8006, Pct(85), Pct(86), Pct(91), Pct(95), Pct(96)}}

SeqsUpTo(S, n) == UNION {[1..k -> S] : k \in 0..n}

\* the temperature of the disk, which no query of the program asks for
DiskTemps == {45, 55, 65}

\* fail: disk_partitions or disk_usage raised something else than PermissionError
StoReadings ==
    {[fail |-> FALSE, parts |-> p, disk_temp |-> d] :
         p \in SeqsUpTo(Partitions, MaxParts), d \in DiskTemps}
    \cup {[fail |-> TRUE, parts |-> <<>>, disk_temp |-> 45]}

\* A behaviour varies the readings of one subsystem, named by stressed; the
\* other subsystems answer every query with a healthy reading
Components == {"cpu", "gpu", "mem", "sto"}

CpuNominal == [fail |-> FALSE, uso |-> Pct(50), sensor |-> [kind |-> "ok", temp |-> 60]]

GpuNominal == [kind |-> "ok", temp |-> 70, load |-> Pct(50), vram |-> Pct(50)]

MemNominal == [kind |-> "ok", percent |-> Pct(50), swap |-> Absent]

StoNominal == [fail |-> FALSE, parts |-> <<[kind |-> "ok", used |-> Pct(50)]>>,
               disk_temp |-> 45]

CpuIn == IF stressed = "cpu" THEN CpuReadings ELSE {CpuNominal}

GpuIn == IF stressed = "gpu" THEN GpuReadings ELSE {GpuNominal}

MemIn == IF stressed = "mem" THEN MemReadings ELSE {MemNominal}

StoIn == IF stressed = "sto" THEN StoReadings ELSE {StoNominal}

----------------------------------------------------------------------------
(* Alerts and recommendations.  metrica and valor stand for the message    *)
(* text, which names the metric and its value; consulta is history: which  *)
(* query of the run (1: diagnosis_thread, 2: analyze) raised the alert.    *)

Alert(tipo, componente, metrica, valor, prioridade, q) ==
    [tipo |-> tipo, componente |-> componente, metrica |-> metrica,
     valor |-> valor, prioridade |-> prioridade, consulta |-> q]

Rec(categoria, prioridade, componente, problema, valor) ==
    [categoria |-> categoria, prioridade |-> prioridade,
     componente |-> componente, problema |-> problema, valor |-> valor]

----------------------------------------------------------------------------
(* Telemetry getters.  Each get_X_info is split in two operators: the      *)
(* snapshot dictionary it returns and the alerts it appends to self.alerts *)
(* on the way.  r is the reading, q the number of the query in the run.    *)

NoInfo == [comp |-> "none"]

get_cpu_info(r) ==
    IF ~available_libs.psutil
    THEN [comp |-> "cpu", erro |-> "default", uso_atual |-> Absent,
          temperatura |-> Absent]
    ELSE IF r.fail
    THEN [comp |-> "cpu", erro |-> "exception", uso_atual |-> Absent,
          temperatura |-> Absent]
    ELSE [comp |-> "cpu", erro |-> "default", uso_atual |-> Fmt1(r.uso),
          temperatura |-> CASE r.sensor.kind = "raise" -> NotAccessible
                            [] r.sensor.kind = "nosensor" -> Absent
                            [] OTHER -> r.sensor.temp]

\* the query reads a temperature from a CPU sensor
CpuSensorRead(r) == available_libs.psutil /\ ~r.fail /\ r.sensor.kind = "ok"

\* history: the temperature the query read, Absent when it read none
CpuTempRead(r) == IF CpuSensorRead(r) THEN {r.sensor.temp} ELSE {Absent}

CpuTempAlerts(temp, q) ==
    IF temp > cpu_critical
    THEN <<Alert("CRITICO", "CPU", "temperatura", temp, "ALTA", q)>>
    ELSE IF temp > cpu_warning
    THEN <<Alert("AVISO", "CPU", "temperatura", temp, "MEDIA", q)>>
    ELSE <<>>

cpu_alerts(r, q) ==
    IF CpuSensorRead(r) THEN CpuTempAlerts(r.sensor.temp, q) ELSE <<>>

GpuRead(r) == available_libs.GPUtil /\ r.kind = "ok"

get_gpu_info(r) ==
    IF GpuRead(r)
    THEN [comp |-> "gpu", erro |-> "absent", uso_gpu |-> Fmt1(r.load),
          temperatura |-> r.temp]
    ELSE [comp |-> "gpu",
          erro |-> IF available_libs.GPUtil /\ r.kind = "raise"
                   THEN "exception" ELSE "default",
          uso_gpu |-> Absent, temperatura |-> Absent]

\* mutant: the warning tier tested first
GpuTempAlertsWarningFirst(temp, q) ==
    IF temp > gpu_warning
    THEN <<Alert("AVISO", "GPU", "temperatura", temp, "MEDIA", q)>>
    ELSE IF temp > gpu_critical
    THEN <<Alert("CRITICO", "GPU", "temperatura", temp, "ALTA", q)>>
    ELSE <<>>

GpuTempAlerts(temp, q) ==
    IF temp > gpu_critical
    THEN <<Alert("CRITICO", "GPU", "temperatura", temp, "ALTA", q)>>
    ELSE IF temp > gpu_warning
    THEN <<Alert("AVISO", "GPU", "temperatura", temp, "MEDIA", q)>>
    ELSE <<>>

GpuVramAlerts(vram, q) ==
    IF vram > Pct(90)
    THEN <<Alert("AVISO", "GPU", "vram", vram, "MEDIA", q)>>
    ELSE <<>>

gpu_alerts(r, q) ==
    IF GpuRead(r) THEN GpuTempAlerts(r.temp, q) \o GpuVramAlerts(r.vram, q)
    ELSE <<>>

MemRead(r) == available_libs.psutil /\ r.kind = "ok"

\* history: the usage the query read, Absent when virtual_memory gave none
MemPercentRead(r) == IF MemRead(r) THEN {r.percent} ELSE {Absent}

get_memory_info(r) ==
    IF MemRead(r)
    THEN [comp |-> "mem", erro |-> "absent", porcentagem_uso |-> Fmt1(r.percent),
          swap_porcentagem |-> IF r.swap = Absent THEN Absent ELSE Fmt1(r.swap)]
    ELSE [comp |-> "mem",
          erro |-> IF available_libs.psutil THEN "exception" ELSE "default",
          porcentagem_uso |-> Absent, swap_porcentagem |-> Absent]

\* mutant: the warning tier tested first, so the critical tier is never reached
MemUsageAlertsWarningFirst(percent, q) ==
    IF percent > Pct(80)
    THEN <<Alert("AVISO", "RAM", "uso", percent, "MEDIA", q)>>
    ELSE IF percent > Pct(90)
    THEN <<Alert("CRITICO", "RAM", "uso", percent, "ALTA", q)>>
    ELSE <<>>

MemUsageAlerts(percent, q) ==
    IF percent > Pct(90)
    THEN <<Alert("CRITICO", "RAM", "uso", percent, "ALTA", q)>>
    ELSE IF percent > Pct(80)
    THEN <<Alert("AVISO", "RAM", "uso", percent, "MEDIA", q)>>
    ELSE <<>>

SwapAlerts(swap, q) ==
    IF swap # Absent /\ swap > Pct(50)
    THEN <<Alert("AVISO", "SWAP", "uso", swap, "BAIXA", q)>>
    ELSE <<>>

memory_alerts(r, q) ==
    IF MemRead(r) THEN MemUsageAlerts(r.percent, q) \o SwapAlerts(r.swap, q)
    ELSE <<>>

StoRead(r) == available_libs.psutil /\ ~r.fail

\* the partitions whose disk_usage did not raise PermissionError
Readable(parts) == SelectSeq(parts, LAMBDA p : p.kind = "ok")

\* storage_info["dispositivos"]: the formatted usage of each readable partition
get_storage_info(r) ==
    [comp |-> "sto",
     erro |-> IF available_libs.psutil /\ r.fail THEN "exception" ELSE "absent",
     dispositivos |-> IF StoRead(r)
                      THEN [i \in 1..Len(Readable(r.parts)) |->
                                Fmt1(Readable(r.parts)[i].used)]
                      ELSE <<>>]

DiskSpaceAlerts(used, q) ==
    IF used > Pct(95)
    THEN <<Alert("CRITICO", "DISCO", "espaco", used, "ALTA", q)>>
    ELSE IF used > Pct(85)
    THEN <<Alert("AVISO", "DISCO", "espaco", used, "MEDIA", q)>>
    ELSE <<>>

RECURSIVE PartAlerts(_, _)
PartAlerts(parts, q) ==
    IF parts = <<>> THEN <<>>
    ELSE DiskSpaceAlerts(Head(parts).used, q) \o PartAlerts(Tail(parts), q)

storage_alerts(r, q) ==
    IF StoRead(r) THEN PartAlerts(Readable(r.parts), q) ELSE <<>>

----------------------------------------------------------------------------
(* analyze_health_and_recommendations: what each analysis appends to       *)
(* self.recommendations, from the snapshot its own query returned          *)

CpuRecs(cpu_info) ==
    IF cpu_info.uso_atual # Absent /\ Above(cpu_info.uso_atual, 80)
    THEN <<Rec("Performance", "ALTA", "CPU", "uso", cpu_info.uso_atual)>>
    ELSE <<>>

GpuRecs(gpu_info) ==
    IF gpu_info.uso_gpu # Absent /\ Above(gpu_info.uso_gpu, 90)
    THEN <<Rec("Performance", "MEDIA", "GPU", "uso", gpu_info.uso_gpu)>>
    ELSE <<>>

\* mutant: the recommendation drawn at the 80% warning limit of the alerts
MemRecsAtWarning(memory_info) ==
    IF memory_info.porcentagem_uso # Absent /\ Above(memory_info.porcentagem_uso, 80)
    THEN <<Rec("Hardware", "ALTA", "RAM", "uso", memory_info.porcentagem_uso)>>
    ELSE <<>>

MemRecs(memory_info) ==
    IF memory_info.porcentagem_uso # Absent /\ Above(memory_info.porcentagem_uso, 85)
    THEN <<Rec("Hardware", "ALTA", "RAM", "uso", memory_info.porcentagem_uso)>>
    ELSE <<>>

DeviceRecs(storage_usage) ==
    IF Above(storage_usage, 90)
    THEN <<Rec("Armazenamento", "CRITICA", "DISCO", "espaco", storage_usage)>>
    ELSE IF Above(storage_usage, 80)
    THEN <<Rec("Armazenamento", "MEDIA", "DISCO", "espaco", storage_usage)>>
    ELSE <<>>

RECURSIVE StoRecs(_)
StoRecs(dispositivos) ==
    IF dispositivos = <<>> THEN <<>>
    ELSE DeviceRecs(Head(dispositivos)) \o StoRecs(Tail(dispositivos))

Manutencao == Rec("Manutencao", "BAIXA", "GERAL", "Manutencao preventiva", 0)

Seguranca == Rec("Seguranca", "MEDIA", "SISTEMA", "Seguranca do sistema", 0)

----------------------------------------------------------------------------
(* State after __init__ (and the module-level import of the libraries)     *)

\* sampling sessions started in one behaviour
MaxSessions == 2

Runs == 1..MaxRuns

Sessions == 1..MaxSessions

\* a buffer entry: the value, and as history the tick that appended it
\* (thread s, its k-th tick)
Sample(v, s, k) == [v |-> v, s |-> s, k |-> k]

NoQueries == [cpu |-> 0, gpu |-> 0, mem |-> 0, sto |-> 0]

DLocal0 == [n |-> NoQueries, temps |-> {}, mems |-> {}, last |-> NoInfo, read |-> NoInfo]

MData0 == [cpu_usage |-> <<>>, gpu_usage |-> <<>>, memory_usage |-> <<>>,
           cpu_temp |-> <<>>, gpu_temp |-> <<>>, timestamps |-> <<>>]

\* ticks the monitoring threads make in one behaviour, all together
MaxTicks == 2

\* presses of the monitoring button in one behaviour
MaxPresses == 3

\* callbacks that may wait in the Tk event queue
QueueCap == 4

\* locals of monitoring_thread (duration_minutes, end_time, current_time,
\* cpu_percent; cpu_percent = Absent: not bound yet), the time its sleep ends,
\* and history: ticks begun, the number of sessions started when the last
\* tick began, whether stop_monitoring was called for its session
MLocal0 == [duration_minutes |-> 0, end_time |-> 0, wake |-> 0, current_time |-> 0,
            cpu_percent |-> Absent, ticks |-> 0, epoch |-> 0, stopped |-> FALSE,
            raised |-> FALSE]

\* exports of the monitoring data requested in one behaviour
MaxExports == 2

\* no export made yet: no file, no message box
Csv0 == [pc |-> "idle", i |-> 0, headers |-> <<>>, rows |-> <<>>,
         result |-> "none", files |-> 0, exports |-> 0]

\* "0%" and "-- C": nothing shown yet
Display0 == [cpu_usage |-> Absent, cpu_temp |-> Absent, gpu_usage |-> Absent,
             gpu_temp |-> Absent, mem_usage |-> Absent]

Init ==
    /\ available_libs \in [psutil : BOOLEAN, GPUtil : BOOLEAN]
    /\ stressed \in Components
    /\ alerts = <<>>
    /\ recommendations = <<>>
    /\ hardware_text = FALSE
    /\ runs = 0
    /\ dpc = [t \in Runs |-> "idle"]
    /\ dlocal = [t \in Runs |-> DLocal0]
    /\ queue = <<>>
    /\ seen = [alerts |-> <<>>, recommendations |-> <<>>, by |-> "none"]
    /\ snapshots = {[alerts |-> <<>>, recommendations |-> <<>>]}
    /\ display = Display0
    /\ presses = 0
    /\ monitoring = FALSE
    /\ monitoring_data = MData0
    /\ monitoring_log = <<>>
    /\ sessions = 0
    /\ mpc = [s \in Sessions |-> "idle"]
    /\ mlocal = [s \in Sessions |-> MLocal0]
    /\ now = 0
    /\ csv = Csv0

----------------------------------------------------------------------------
(* run_complete_diagnosis and its diagnosis_thread.  One action per        *)
(* statement that touches shared state; a getter and the appends it makes  *)
(* are one step.  The status-bar callbacks and the report string are       *)
(* presentation and are left out; get_motherboard_info, get_system_info    *)
(* and get_network_info touch no field of the object.  Every getter        *)
(* catches its own exceptions, so the handler at 1022-1025 is not entered. *)

Lists == [alerts |-> alerts, recommendations |-> recommendations]

Callback(cb) == [cb |-> cb]

NoRunActive == \A t \in Runs : dpc[t] \in {"idle", "done"}

\* the button handler (also scheduled once by run() at startup)
run_complete_diagnosis ==
    /\ runs < MaxRuns
    /\ runs' = runs + 1
    /\ hardware_text' = FALSE
    /\ dpc' = [dpc EXCEPT ![runs + 1] = "clear_alerts"]
    /\ dlocal' = [t \in Runs |-> IF dpc[t] = "done" THEN DLocal0 ELSE dlocal[t]]
    /\ UNCHANGED <<available_libs, stressed, alerts, recommendations, queue>>
    /\ UNCHANGED monVars

\* mutant: the run goes on without emptying the alert list
DiagKeepAlerts(t) ==
    /\ dpc[t] = "clear_alerts"
    /\ dpc' = [dpc EXCEPT ![t] = "clear_recs"]
    /\ UNCHANGED <<available_libs, stressed, alerts, recommendations, hardware_text, runs,
                   dlocal, queue>>
    /\ UNCHANGED monVars

\* line 859
DiagClearAlerts(t) ==
    /\ dpc[t] = "clear_alerts"
    /\ alerts' = <<>>
    /\ dpc' = [dpc EXCEPT ![t] = "clear_recs"]
    /\ UNCHANGED <<available_libs, stressed, recommendations, hardware_text, runs, dlocal, queue>>
    /\ UNCHANGED monVars

DiagClearRecs(t) ==
    /\ dpc[t] = "clear_recs"
    /\ recommendations' = <<>>
    /\ dpc' = [dpc EXCEPT ![t] = "cpu"]
    /\ UNCHANGED <<available_libs, stressed, alerts, hardware_text, runs, dlocal, queue>>
    /\ UNCHANGED monVars

\* history kept for a query of component c that got reading r from the
\* provider and returned snapshot info
Queried(t, c, r, info) ==
    [dlocal[t] EXCEPT !.n[c] = @ + 1, !.last = info, !.read = r]

\* a getter called from diagnosis_thread: pc at -> to
DiagQuery(t, at, to, news, hist) ==
    /\ dpc[t] = at
    /\ alerts' = alerts \o news
    /\ dlocal' = [dlocal EXCEPT ![t] = hist]
    /\ dpc' = [dpc EXCEPT ![t] = to]
    /\ UNCHANGED <<available_libs, stressed, recommendations, hardware_text, runs, queue>>
    /\ UNCHANGED monVars

DiagCpu(t, r) ==
    DiagQuery(t, "cpu", "gpu", cpu_alerts(r, 1),
              [Queried(t, "cpu", r, get_cpu_info(r)) EXCEPT
                   !.temps = @ \cup CpuTempRead(r)])

DiagGpu(t, r) ==
    DiagQuery(t, "gpu", "mem", gpu_alerts(r, 1), Queried(t, "gpu", r, get_gpu_info(r)))

DiagMem(t, r) ==
    DiagQuery(t, "mem", "sto", memory_alerts(r, 1),
              [Queried(t, "mem", r, get_memory_info(r)) EXCEPT
                   !.mems = @ \cup MemPercentRead(r)])

DiagSto(t, r) ==
    DiagQuery(t, "sto", "analyze", storage_alerts(r, 1),
              Queried(t, "sto", r, get_storage_info(r)))

\* analyze_health_and_recommendations, line 761
AnalyzeClear(t) ==
    /\ dpc[t] = "analyze"
    /\ recommendations' = <<>>
    /\ dpc' = [dpc EXCEPT ![t] = "an_cpu"]
    /\ UNCHANGED <<available_libs, stressed, alerts, hardware_text, runs, dlocal, queue>>
    /\ UNCHANGED monVars

\* a getter called from analyze, and the recommendation drawn from its snapshot
AnalyzeQuery(t, at, to, news, recs, hist) ==
    /\ dpc[t] = at
    /\ alerts' = alerts \o news
    /\ recommendations' = recommendations \o recs
    /\ dlocal' = [dlocal EXCEPT ![t] = hist]
    /\ dpc' = [dpc EXCEPT ![t] = to]
    /\ UNCHANGED <<available_libs, stressed, hardware_text, runs, queue>>
    /\ UNCHANGED monVars

AnalyzeCpu(t, r) ==
    AnalyzeQuery(t, "an_cpu", "an_gpu", cpu_alerts(r, 2), CpuRecs(get_cpu_info(r)),
                 [Queried(t, "cpu", r, get_cpu_info(r)) EXCEPT
                      !.temps = @ \cup CpuTempRead(r)])

AnalyzeGpu(t, r) ==
    AnalyzeQuery(t, "an_gpu", "an_mem", gpu_alerts(r, 2), GpuRecs(get_gpu_info(r)),
                 Queried(t, "gpu", r, get_gpu_info(r)))

AnalyzeMem(t, r) ==
    AnalyzeQuery(t, "an_mem", "an_sto", memory_alerts(r, 2),
                 MemRecs(get_memory_info(r)),
                 [Queried(t, "mem", r, get_memory_info(r)) EXCEPT
                      !.mems = @ \cup MemPercentRead(r)])

AnalyzeSto(t, r) ==
    AnalyzeQuery(t, "an_sto", "an_manut", storage_alerts(r, 2),
                 StoRecs(get_storage_info(r).dispositivos),
                 Queried(t, "sto", r, get_storage_info(r)))

AnalyzeStatic(t, at, to, rec) ==
    /\ dpc[t] = at
    /\ recommendations' = Append(recommendations, rec)
    /\ dpc' = [dpc EXCEPT ![t] = to]
    /\ UNCHANGED <<available_libs, stressed, alerts, hardware_text, runs, dlocal, queue>>
    /\ UNCHANGED monVars

AnalyzeManutencao(t) == AnalyzeStatic(t, "an_manut", "an_segur", Manutencao)

AnalyzeSeguranca(t) == AnalyzeStatic(t, "an_segur", "report", Seguranca)

\* lines 979-1020: the report is built and the GUI updates are scheduled
DiagReport(t) ==
    /\ dpc[t] = "report"
    /\ queue' = queue \o <<Callback("insert_report"), Callback("update_alerts_tab")>>
    /\ dpc' = [dpc EXCEPT ![t] = "done"]
    /\ UNCHANGED <<available_libs, stressed, alerts, recommendations, hardware_text, runs, dlocal>>
    /\ UNCHANGED monVars

----------------------------------------------------------------------------
(* Foreground: the Tk event loop runs the scheduled callbacks in order,    *)
(* and the user's button presses between them                              *)

\* lambda: self.hardware_text.insert('1.0', report)
CbInsertReport ==
    /\ queue # <<>> /\ Head(queue).cb = "insert_report"
    /\ queue' = Tail(queue)
    /\ hardware_text' = TRUE
    /\ UNCHANGED <<available_libs, stressed, alerts, recommendations, runs, dpc, dlocal>>
    /\ UNCHANGED monVars

\* lambda: self.update_alerts_tab(); the tab shows the two lists as they are
CbUpdateAlertsTab ==
    /\ queue # <<>> /\ Head(queue).cb = "update_alerts_tab"
    /\ queue' = Tail(queue)
    /\ UNCHANGED <<available_libs, stressed, alerts, recommendations, hardware_text, runs,
                   dpc, dlocal>>
    /\ UNCHANGED monVars

\* export_html_report with a path chosen: generate_html_report reads the lists
export_html_report ==
    /\ hardware_text
    /\ UNCHANGED <<available_libs, stressed, alerts, recommendations, hardware_text, runs,
                   dpc, dlocal, queue>>
    /\ UNCHANGED monVars

Reads(by) == seen' = [alerts |-> alerts, recommendations |-> recommendations, by |-> by]

----------------------------------------------------------------------------
(* SpecDiag: diagnoses requested one after the other (the user waits for   *)
(* the run and its GUI updates to finish before pressing the button again) *)

DiagStep(t, cpus, gpus, mems, stos) ==
    \/ DiagClearAlerts(t)
    \/ DiagClearRecs(t)
    \/ \E r \in cpus : DiagCpu(t, r)
    \/ \E r \in gpus : DiagGpu(t, r)
    \/ \E r \in mems : DiagMem(t, r)
    \/ \E r \in stos : DiagSto(t, r)
    \/ AnalyzeClear(t)
    \/ \E r \in cpus : AnalyzeCpu(t, r)
    \/ \E r \in gpus : AnalyzeGpu(t, r)
    \/ \E r \in mems : AnalyzeMem(t, r)
    \/ \E r \in stos : AnalyzeSto(t, r)
    \/ AnalyzeManutencao(t)
    \/ AnalyzeSeguranca(t)
    \/ DiagReport(t)

NextDiag ==
    \/ NoRunActive /\ queue = <<>> /\ run_complete_diagnosis
                   /\ UNCHANGED <<seen, snapshots>>
    \/ \E t \in Runs : DiagStep(t, CpuIn, GpuIn, MemIn, StoIn)
                       /\ UNCHANGED <<seen, snapshots>>
    \/ CbInsertReport /\ UNCHANGED <<seen, snapshots>>
    \/ CbUpdateAlertsTab /\ UNCHANGED <<seen, snapshots>>

SpecDiag == Init /\ [][NextDiag]_vars

----------------------------------------------------------------------------
(* Claims about one diagnostic run, checked under SpecDiag *)

\* the entries of a list that satisfy Test
Matching(list, Test(_)) == {i \in DOMAIN list : Test(list[i])}

NAlerts(tipo, componente, metrica) ==
    Cardinality(Matching(alerts, LAMBDA a : /\ a.tipo = tipo
                                            /\ a.componente = componente
                                            /\ a.metrica = metrica))

NRecs(componente) ==
    Cardinality(Matching(recommendations, LAMBDA x : x.componente = componente))

NRecsNaming(componente, problema) ==
    Cardinality(Matching(recommendations, LAMBDA x : /\ x.componente = componente
                                                     /\ x.problema = problema))

\* run t has finished and no later run has touched the lists
Completed(t) == dpc[t] = "done" /\ t = runs

\* C1 (as claimed): after a completed run whose CPU temperature reads all
\* returned t, the alert list holds exactly one CRITICO CPU temperature alert
\* if t > 85, exactly one AVISO if 75 < t <= 85, and none if t <= 75.
C1_OneCpuAlertPerRun ==
    \A t \in Runs : \A temp \in CpuTemps :
        (Completed(t) /\ dlocal[t].temps = {temp}) =>
            /\ NAlerts("CRITICO", "CPU", "temperatura")
                   = (IF temp > 85 THEN 1 ELSE 0)
            /\ NAlerts("AVISO", "CPU", "temperatura")
                   = (IF temp > 75 /\ temp <= 85 THEN 1 ELSE 0)

\* C5 (as claimed): a telemetry query made by diagnosis_thread (get_cpu_info,
\* get_gpu_info, get_memory_info, get_storage_info) leaves the alert list and
\* the recommendation list as they were.
C5_QueryLeavesListsUnchanged ==
    [][\A t \in Runs :
          (dpc[t] \in {"cpu", "gpu", "mem", "sto"} /\ dpc'[t] # dpc[t]) =>
              (alerts' = alerts /\ recommendations' = recommendations)]_vars

\* C6 (as claimed): a completed run has queried every subsystem once, and no
\* alert about a component comes from another query than the one (the query
\* of analyze, number 2) its recommendations come from.
C6_OneSnapshotPerSubsystem ==
    \A t \in Runs :
        Completed(t) =>
            /\ \A c \in Components : dlocal[t].n[c] = 1
            /\ \A i \in DOMAIN alerts : \A j \in DOMAIN recommendations :
                   alerts[i].componente = recommendations[j].componente
                       => alerts[i].consulta = 2

JustAnalyzed(t, at, to) == dpc[t] = at /\ dpc'[t] = to

Appended == SubSeq(recommendations', Len(recommendations) + 1, Len(recommendations'))

OneIf(cond, componente, problema) ==
    /\ Len(recommendations') >= Len(recommendations)
    /\ SubSeq(recommendations', 1, Len(recommendations)) = recommendations
    /\ Len(Appended) = (IF cond THEN 1 ELSE 0)
    /\ cond => (Appended[1].componente = componente /\ Appended[1].problema = problema)

\* C10 (as claimed): each analysis of analyze_health_and_recommendations
\* appends exactly one recommendation naming the metric when the metric of its
\* snapshot exceeds the warning threshold of the table (CPU temperature 75,
\* GPU temperature 80, memory usage 80%), and none otherwise.
C10_RecsByWarningThreshold ==
    [][\A t \in Runs :
          /\ JustAnalyzed(t, "an_cpu", "an_gpu") =>
                 OneIf(dlocal'[t].last.temperatura > cpu_warning, "CPU", "temperatura")
          /\ JustAnalyzed(t, "an_gpu", "an_mem") =>
                 OneIf(dlocal'[t].last.temperatura > gpu_warning, "GPU", "temperatura")
          /\ JustAnalyzed(t, "an_mem", "an_sto") =>
                 OneIf(dlocal'[t].last.porcentagem_uso > 800, "RAM", "uso")]_vars

\* the devices of a storage snapshot above n percent
DevicesAbove(info, n) == {i \in DOMAIN info.dispositivos : info.dispositivos[i] > n * 10}

\* C10 (amended): each analysis appends exactly one recommendation when the
\* usage of its snapshot exceeds the limit analyze itself uses (CPU usage 80%,
\* GPU usage 90%, memory usage 85%, per partition disk space used 80%, as
\* formatted to one decimal), and none otherwise; none is derived from a
\* temperature or from swap.
C10_RecsByUsageLimit ==
    [][\A t \in Runs :
          /\ JustAnalyzed(t, "an_cpu", "an_gpu") =>
                 OneIf(dlocal'[t].last.uso_atual > 800, "CPU", "uso")
          /\ JustAnalyzed(t, "an_gpu", "an_mem") =>
                 OneIf(dlocal'[t].last.uso_gpu > 900, "GPU", "uso")
          /\ JustAnalyzed(t, "an_mem", "an_sto") =>
                 OneIf(dlocal'[t].last.porcentagem_uso > 850, "RAM", "uso")
          /\ JustAnalyzed(t, "an_sto", "an_manut") =>
                 /\ SubSeq(recommendations', 1, Len(recommendations)) = recommendations
                 /\ Len(Appended) = Cardinality(DevicesAbove(dlocal'[t].last, 80))
                 /\ \A k \in DOMAIN Appended :
                        /\ Appended[k].componente = "DISCO"
                        /\ Appended[k].problema = "espaco"
                        /\ Appended[k].valor > 800]_vars

\* C10 witness: the memory analysis has just appended the RAM recommendation
\* for a snapshot at 86%, and at 81% (above the 80% warning threshold) a run
\* got past the memory analysis without one
C10_Witness ==
    \E t \in Runs :
        /\ dpc[t] = "an_sto"
        /\ dlocal[t].last.comp = "mem"
        /\ dlocal[t].last.porcentagem_uso = 860
        /\ NRecs("RAM") = 1

----------------------------------------------------------------------------
(* SpecRace: the button may be pressed at any moment, so diagnosis threads *)
(* overlap each other and the foreground readers.  The CPU is either       *)
(* healthy or hot; the other subsystems are healthy.                       *)

CpuHot == [fail |-> FALSE, uso |-> 8010, sensor |-> [kind |-> "ok", temp |-> 86]]

\* history: the lists are complete once analyze has appended its last entry
Publishes(t) ==
    snapshots' = IF dpc[t] = "an_segur" /\ dpc'[t] = "report"
                 THEN snapshots \cup {[alerts |-> alerts',
                                       recommendations |-> recommendations']}
                 ELSE snapshots

NextRace ==
    \/ run_complete_diagnosis /\ UNCHANGED <<seen, snapshots>>
    \/ \E t \in Runs :
           /\ DiagStep(t, {CpuNominal, CpuHot}, {GpuNominal}, {MemNominal}, {StoNominal})
           /\ Publishes(t)
           /\ UNCHANGED seen
    \/ CbInsertReport /\ UNCHANGED <<seen, snapshots>>
    \/ CbUpdateAlertsTab /\ Reads("update_alerts_tab") /\ UNCHANGED snapshots
    \/ export_html_report /\ Reads("generate_html_report") /\ UNCHANGED snapshots

SpecRace == Init /\ [][NextRace]_vars

\* C4 (as claimed): what a foreground reader (update_alerts_tab,
\* generate_html_report) read is the pair of lists some run left complete
\* (or the empty lists of before the first run), whenever it read them.
C4_ReadersSeeCompleteLists ==
    NoRunActive =>
        [alerts |-> seen.alerts, recommendations |-> seen.recommendations]
            \in snapshots

----------------------------------------------------------------------------
(* The sampling loop: toggle_monitoring, start_monitoring and its          *)
(* monitoring_thread, stop_monitoring, finish_monitoring.  Time is the     *)
(* wall clock in seconds; a thread's steps take no time except sleep(2),   *)
(* which ends no sooner than two seconds later.                            *)

SleepSecs == 2

SecsPerMinute == 60

envVars == <<available_libs, stressed>>

\* what the user may have typed in the duration spinbox; int() of text that
\* is no number raises ValueError
DurationInputs == {[valid |-> TRUE, minutes |-> 1], [valid |-> FALSE, minutes |-> 0]}

\* psutil.cpu_percent(interval=1)
MonCpuReadings ==
    IF stressed = "cpu"
    THEN {[kind |-> "raise", percent |-> 0], [kind |-> "ok", percent |-> Pct(80)],
          [kind |-> "ok", percent |-> Pct(81)]}
    ELSE {[kind |-> "ok", percent |-> Pct(50)]}

\* psutil.sensors_temperatures() as get_cpu_temperature sees it
MonSensors ==
    IF stressed = "cpu"
    THEN {[kind |-> "nosensor", temp |-> 0], [kind |-> "raise", temp |-> 0],
          [kind |-> "ok", temp |-> 70]}
    ELSE {[kind |-> "ok", temp |-> 60]}

\* psutil.virtual_memory()
MonMemReadings ==
    IF stressed = "mem"
    THEN {[kind |-> "raise", percent |-> 0], [kind |-> "ok", percent |-> Pct(85)],
          [kind |-> "ok", percent |-> Pct(86)]}
    ELSE {[kind |-> "ok", percent |-> Pct(50)]}

\* GPUtil.getGPUs(): load (as a percentage) and temperature of the first GPU
MonGpuReadings ==
    IF stressed = "gpu"
    THEN {[kind |-> "none", temp |-> 0, load |-> 0],
          [kind |-> "raise", temp |-> 0, load |-> 0],
          [kind |-> "ok", temp |-> 60, load |-> Pct(30)]}
    ELSE {[kind |-> "ok", temp |-> 60, load |-> Pct(30)]}

\* Python truth of a number or None
Truthy(v) == v # Absent /\ v # 0

\* returns the first CPU sensor's temperature, or None (Absent), also when
\* the query raises (lines 1176-1178)
get_cpu_temperature(sensor) ==
    IF available_libs.psutil /\ sensor.kind = "ok" THEN sensor.temp ELSE Absent

LogLine(kind, hora, valor) == [kind |-> kind, hora |-> hora, valor |-> valor]

LogCallback(line) == [cb |-> "log", line |-> line]

Room(n) == Len(queue) + n <= QueueCap

\* lines 1088-1100 and 1162-1164, with duration_minutes = d
start_monitoring(d) ==
    /\ sessions < MaxSessions
    /\ monitoring' = TRUE
    /\ monitoring_data' = MData0
    /\ monitoring_log' = <<LogLine("inicio", now, d)>>
    /\ sessions' = sessions + 1
    /\ mpc' = [mpc EXCEPT ![sessions + 1] = "begin"]
    /\ mlocal' = [mlocal EXCEPT ![sessions + 1] = [MLocal0 EXCEPT !.duration_minutes = d]]
    /\ UNCHANGED <<display, now, queue>>
    /\ UNCHANGED <<envVars, diagVars, csv>>

\* lines 1088-1096 when int(self.duration_var.get()) raises: the handler ends there
start_monitoring_bad_duration ==
    /\ monitoring' = TRUE
    /\ monitoring_data' = MData0
    /\ UNCHANGED <<display, monitoring_log, sessions, mpc, mlocal, now, queue>>
    /\ UNCHANGED <<envVars, diagVars, csv>>

\* history: the session the stop is for is the one started last
stop_monitoring ==
    /\ monitoring' = FALSE
    /\ mlocal' = [s \in Sessions |->
                     IF s = sessions THEN [mlocal[s] EXCEPT !.stopped = TRUE]
                     ELSE mlocal[s]]
    /\ UNCHANGED <<display, monitoring_data, monitoring_log, sessions, mpc, now, queue>>
    /\ UNCHANGED <<envVars, diagVars, csv>>

\* the button's command
toggle_monitoring(text) ==
    /\ presses < MaxPresses
    /\ presses' = presses + 1
    /\ IF ~monitoring
       THEN IF text.valid THEN start_monitoring(text.minutes)
            ELSE start_monitoring_bad_duration
       ELSE stop_monitoring

\* monitoring_thread s moves to position "to" with locals "locals"
MonLocal(s, to, locals) ==
    /\ mpc' = [mpc EXCEPT ![s] = to]
    /\ mlocal' = [mlocal EXCEPT ![s] = locals]

\* lines 1103-1104: the thread starts
MonBegin(s) ==
    /\ mpc[s] = "begin"
    /\ MonLocal(s, "loop", [mlocal[s] EXCEPT
           !.end_time = now + mlocal[s].duration_minutes * SecsPerMinute])
    /\ UNCHANGED <<display, monitoring, monitoring_data, monitoring_log, sessions,
                   now, queue>>
    /\ UNCHANGED <<envVars, diagVars, presses, csv>>

RECURSIVE TicksOf(_)
TicksOf(S) == IF S = {} THEN 0
              ELSE LET s == CHOOSE x \in S : TRUE
                   IN  mlocal[s].ticks + TicksOf(S \ {s})

\* history: ticks begun so far by all threads
TicksBegun == TicksOf(Sessions)

\* the loop test without its deadline
LoopConditionNoDeadline(s) == monitoring

\* line 1106: while self.monitoring and time.time() < end_time
LoopCondition(s) == monitoring /\ now < mlocal[s].end_time

\* self.monitoring_data[series].append(v) by thread s in its tick k
Appended1(data, series, v, s, k) ==
    [data EXCEPT ![series] = Append(@, Sample(v, s, k))]

\* lines 1106-1109 and 1159: the loop test; a tick begins with its timestamp,
\* or the loop is left and finish_monitoring is scheduled
MonLoop(s) ==
    /\ mpc[s] = "loop"
    /\ IF LoopCondition(s)
       THEN /\ TicksBegun < MaxTicks
            /\ monitoring_data' = Appended1(monitoring_data, "timestamps", now, s,
                                            mlocal[s].ticks + 1)
            /\ MonLocal(s, "sampling", [mlocal[s] EXCEPT !.ticks = @ + 1,
                                           !.epoch = sessions, !.current_time = now])
            /\ UNCHANGED queue
       ELSE /\ Room(1)
            /\ queue' = Append(queue, Callback("finish_monitoring"))
            /\ MonLocal(s, "done", mlocal[s])
            /\ UNCHANGED monitoring_data
    /\ UNCHANGED <<display, monitoring, monitoring_log, sessions, now>>
    /\ UNCHANGED <<envVars, diagVars, presses, csv>>

\* lines 1112-1123: the psutil block; cpu_percent or virtual_memory may raise
\* and leave the block where it is
PsutilBlock(data, s, cpu, sensor, mem) ==
    LET k == mlocal[s].ticks
        d1 == Appended1(data, "cpu_usage", cpu.percent, s, k)
        d2 == IF Truthy(get_cpu_temperature(sensor))
              THEN Appended1(d1, "cpu_temp", get_cpu_temperature(sensor), s, k)
              ELSE d1
    IN  IF ~available_libs.psutil
        THEN [data |-> data, raised |-> FALSE, cpu_percent |-> mlocal[s].cpu_percent]
        ELSE IF cpu.kind = "raise"
        THEN [data |-> data, raised |-> TRUE, cpu_percent |-> mlocal[s].cpu_percent]
        ELSE IF mem.kind = "raise"
        THEN [data |-> d2, raised |-> TRUE, cpu_percent |-> cpu.percent]
        ELSE [data |-> Appended1(d2, "memory_usage", mem.percent, s, k),
              raised |-> FALSE, cpu_percent |-> cpu.percent]

\* lines 1126-1134: the GPU block, whose failures are passed over
GpuBlock(data, s, gpu) ==
    IF available_libs.GPUtil /\ gpu.kind = "ok"
    THEN Appended1(Appended1(data, "gpu_usage", gpu.load, s, mlocal[s].ticks),
                   "gpu_temp", gpu.temp, s, mlocal[s].ticks)
    ELSE data

\* lines 1141-1143
CpuEvent(s, cpu_percent) ==
    IF cpu_percent > Pct(80)
    THEN <<LogCallback(LogLine("cpu_alta", mlocal[s].current_time, cpu_percent))>>
    ELSE <<>>

\* lines 1145-1149, after the second psutil.virtual_memory() returned
RamEvent(s, percent) ==
    IF available_libs.psutil /\ percent > Pct(85)
    THEN <<LogCallback(LogLine("ram_alta", mlocal[s].current_time, percent))>>
    ELSE <<>>

\* lines 1137-1149: what the tick schedules, and whether it raised doing so:
\* cpu_percent is unbound if no tick of this thread read it, and memory is
\* read a second time
Published(s, cpu_percent, again) ==
    IF cpu_percent = Absent
    THEN [calls |-> <<Callback("display")>>, raised |-> TRUE]
    ELSE IF available_libs.psutil /\ again.kind = "raise"
    THEN [calls |-> <<Callback("display")>> \o CpuEvent(s, cpu_percent), raised |-> TRUE]
    ELSE [calls |-> <<Callback("display")>> \o CpuEvent(s, cpu_percent)
                       \o RamEvent(s, again.percent),
          raised |-> FALSE]

\* lines 1153-1155
ErrorCallback == <<LogCallback(LogLine("erro", now, 0))>>

\* lines 1112-1156: the rest of the tick, from the readings it gets, up to
\* the call of time.sleep(2)
MonSample(s, cpu, sensor, mem, gpu, again) ==
    LET block == PsutilBlock(monitoring_data, s, cpu, sensor, mem)
        pub == Published(s, block.cpu_percent, again)
        \* history: an exception was raised somewhere in this tick, the ones
        \* passed over at lines 1133-1134 and 1176-1177 included
        raised == \/ block.raised
                  \/ available_libs.psutil /\ cpu.kind = "ok" /\ sensor.kind = "raise"
                  \/ ~block.raised /\ available_libs.GPUtil /\ gpu.kind = "raise"
                  \/ ~block.raised /\ pub.raised
    IN  /\ mpc[s] = "sampling"
        /\ Room(4)
        /\ IF block.raised
           THEN /\ monitoring_data' = block.data
                /\ queue' = queue \o ErrorCallback
           ELSE /\ monitoring_data' = GpuBlock(block.data, s, gpu)
                /\ queue' = queue \o pub.calls
                                  \o (IF pub.raised THEN ErrorCallback ELSE <<>>)
        /\ MonLocal(s, "sleeping", [mlocal[s] EXCEPT !.wake = now + SleepSecs,
                                       !.cpu_percent = block.cpu_percent,
                                       !.raised = raised])
        /\ UNCHANGED <<display, monitoring, monitoring_log, sessions, now>>
        /\ UNCHANGED <<envVars, diagVars, presses, csv>>

\* time.sleep(2) returns
MonWake(s) ==
    /\ mpc[s] = "sleeping"
    /\ now >= mlocal[s].wake
    /\ MonLocal(s, "loop", [mlocal[s] EXCEPT !.raised = FALSE])
    /\ UNCHANGED <<display, monitoring, monitoring_data, monitoring_log, sessions,
                   now, queue>>
    /\ UNCHANGED <<envVars, diagVars, presses, csv>>

----------------------------------------------------------------------------
(* Foreground callbacks of the sampling loop *)

Last(list) == list[Len(list)]

\* a percentage formatted ".1f": tenths
ShownPct(old, list) == IF list # <<>> THEN Fmt1(Last(list).v) ELSE old

\* a temperature formatted ".1f": tenths of a degree
ShownTemp(old, list) ==
    IF list # <<>> /\ Truthy(Last(list).v) THEN Last(list).v * 10 ELSE old

\* update_realtime_display: each StringVar is set from the last entry of its list
CbDisplay ==
    /\ queue # <<>> /\ Head(queue).cb = "display"
    /\ queue' = Tail(queue)
    /\ display' =
           [cpu_usage |-> ShownPct(display.cpu_usage, monitoring_data.cpu_usage),
            cpu_temp |-> ShownTemp(display.cpu_temp, monitoring_data.cpu_temp),
            gpu_usage |-> ShownPct(display.gpu_usage, monitoring_data.gpu_usage),
            gpu_temp |-> ShownTemp(display.gpu_temp, monitoring_data.gpu_temp),
            mem_usage |-> ShownPct(display.mem_usage, monitoring_data.memory_usage)]
    /\ UNCHANGED <<monitoring, monitoring_data, monitoring_log, sessions, mpc, mlocal, now>>
    /\ UNCHANGED <<envVars, diagVars, presses, csv>>

\* the log callback, were the event also put on the alert list
CbLogToAlerts ==
    /\ queue # <<>> /\ Head(queue).cb = "log"
    /\ queue' = Tail(queue)
    /\ monitoring_log' = Append(monitoring_log, Head(queue).line)
    /\ alerts' = Append(alerts, Head(queue).line)
    /\ UNCHANGED <<display, monitoring, monitoring_data, sessions, mpc, mlocal, now>>
    /\ UNCHANGED <<envVars, recommendations, hardware_text, runs, dpc, dlocal, seen,
                   snapshots, presses, csv>>

\* lambda msg=log_msg: self.monitoring_log.insert(tk.END, msg)
CbLog ==
    /\ queue # <<>> /\ Head(queue).cb = "log"
    /\ queue' = Tail(queue)
    /\ monitoring_log' = Append(monitoring_log, Head(queue).line)
    /\ UNCHANGED <<display, monitoring, monitoring_data, sessions, mpc, mlocal, now>>
    /\ UNCHANGED <<envVars, diagVars, presses, csv>>

RECURSIVE SumV(_)
SumV(list) == IF list = <<>> THEN 0 ELSE Head(list).v + SumV(Tail(list))

\* sum(list) / len(list), formatted ".1f": tenths of a percent
Mean1(list) == (2 * SumV(list) + 10 * Len(list)) \div (20 * Len(list))

\* max(list), formatted ".1f"
Max1(list) == Fmt1(CHOOSE m \in {list[i].v : i \in DOMAIN list} :
                       \A i \in DOMAIN list : list[i].v <= m)

\* the closing lines finish_monitoring writes to the log
Summary ==
    [kind |-> "fim", hora |-> now,
     valor |-> Len(monitoring_data.timestamps),
     cpu |-> IF monitoring_data.cpu_usage # <<>>
             THEN <<Mean1(monitoring_data.cpu_usage), Max1(monitoring_data.cpu_usage)>>
             ELSE <<>>,
     ram |-> IF monitoring_data.memory_usage # <<>>
             THEN <<Mean1(monitoring_data.memory_usage), Max1(monitoring_data.memory_usage)>>
             ELSE <<>>]

\* finish_monitoring, run by the event loop
CbFinish ==
    /\ queue # <<>> /\ Head(queue).cb = "finish_monitoring"
    /\ queue' = Tail(queue)
    /\ monitoring' = FALSE
    /\ monitoring_log' = Append(monitoring_log, Summary)
    /\ UNCHANGED <<display, monitoring_data, sessions, mpc, mlocal, now>>
    /\ UNCHANGED <<envVars, diagVars, presses, csv>>

\* the threads still in their loop
Looping == {s \in Sessions : mpc[s] \in {"loop", "sampling", "sleeping"}}

\* the instants at which something may change: a sleep ends, a session expires
Instants == {mlocal[s].wake : s \in {x \in Looping : mpc[x] = "sleeping"}}
            \cup {mlocal[s].end_time : s \in Looping}

\* time passes
Advance ==
    /\ \E t \in Instants : t > now /\ now' = t
    /\ UNCHANGED <<display, monitoring, monitoring_data, monitoring_log, sessions,
                   mpc, mlocal, queue>>
    /\ UNCHANGED <<envVars, diagVars, presses, csv>>

----------------------------------------------------------------------------
(* SpecMon: the sampling loop, its callbacks and the user's toggles *)

MonStep(s) ==
    \/ MonBegin(s)
    \/ MonLoop(s)
    \/ \E cpu \in MonCpuReadings, sensor \in MonSensors, mem \in MonMemReadings,
          gpu \in MonGpuReadings, again \in MonMemReadings :
           MonSample(s, cpu, sensor, mem, gpu, again)
    \/ MonWake(s)

NextMon ==
    \/ \E text \in DurationInputs : toggle_monitoring(text)
    \/ \E s \in Sessions : MonStep(s)
    \/ CbDisplay
    \/ CbLog
    \/ CbFinish
    \/ Advance

SpecMon == Init /\ [][NextMon]_vars

----------------------------------------------------------------------------
(* Claims about the sampling loop, under SpecMon *)

\* the threads that have been started and have not left their loop
Running == {s \in Sessions : mpc[s] \in {"begin", "loop", "sampling", "sleeping"}}

\* C2: only one monitoring session runs at a time: while the thread of a
\* later session is running, the thread of an earlier session is never in a
\* tick that it began after that later session was started.
C2_OneLoopAtATime ==
    \A s \in Sessions, t \in Sessions :
        (s < t /\ t \in Running) => ~(mpc[s] = "sampling" /\ mlocal[s].epoch >= t)

\* C3: once stop_monitoring has been called for a session, the thread of
\* that session begins no further tick, whatever the user does afterwards.
C3_NoTickAfterStop ==
    [][\A s \in Sessions : mlocal[s].stopped => mlocal'[s].ticks = mlocal[s].ticks]_vars

\* the only session started so far, by the only press of the button
OnlySession == sessions = 1 /\ presses = 1

StrictlyOrdered(list) ==
    \A i \in DOMAIN list, j \in DOMAIN list : i < j => list[i].v < list[j].v

\* C7: between the ticks of a session (psutil present), after N ticks the
\* timestamps, the CPU% series and the memory% series each hold N entries and
\* the timestamps are strictly increasing, also when a query raised in a tick.
C7_OneEntryPerTick ==
    (OnlySession /\ available_libs.psutil /\ mpc[1] \in {"loop", "sleeping", "done"})
    => /\ Len(monitoring_data.timestamps) = mlocal[1].ticks
       /\ Len(monitoring_data.cpu_usage) = mlocal[1].ticks
       /\ Len(monitoring_data.memory_usage) = mlocal[1].ticks
       /\ StrictlyOrdered(monitoring_data.timestamps)

Metrics == {"cpu_usage", "memory_usage", "cpu_temp", "gpu_usage", "gpu_temp"}

\* C8: in a session, the value every metric holds at index i was read in the
\* tick whose timestamp is at index i: a metric that was unavailable in a
\* tick does not get a value of another tick at that tick's index.
C8_IndexIsTick ==
    OnlySession =>
        \A m \in Metrics : \A i \in DOMAIN monitoring_data[m] :
            /\ i \in DOMAIN monitoring_data.timestamps
            /\ monitoring_data[m][i].s = monitoring_data.timestamps[i].s
            /\ monitoring_data[m][i].k = monitoring_data.timestamps[i].k

----------------------------------------------------------------------------
(* Claims about the analysis and the rebuild of the lists *)

\* run t has just returned from analyze_health_and_recommendations
AnalyzeReturns(t) == dpc[t] = "an_segur" /\ dpc'[t] = "report"

\* C11 (as claimed): when a call of analyze_health_and_recommendations
\* returns, the recommendation list holds the preventive-maintenance entry
\* (GERAL) exactly once and the system-security entry (SISTEMA) exactly once.
C11_StaticRecsOnceEach ==
    [][\A t \in Runs :
          AnalyzeReturns(t) =>
              /\ Cardinality({i \in DOMAIN recommendations' :
                                 recommendations'[i] = Manutencao}) = 1
              /\ Cardinality({i \in DOMAIN recommendations' :
                                 recommendations'[i] = Seguranca}) = 1]_vars

----------------------------------------------------------------------------
(* SpecTwice: diagnoses run one after the other on fixed readings: every   *)
(* query of the behaviour gets the same answer, the stressed subsystem a   *)
(* reading above all its limits and the others a healthy one               *)

GpuHot == [kind |-> "ok", temp |-> 91, load |-> Pct(91), vram |-> Pct(91)]

MemHot == [kind |-> "ok", percent |-> Pct(91), swap |-> Pct(51)]

StoHot == [fail |-> FALSE, parts |-> <<[kind |-> "ok", used |-> Pct(96)]>>,
           disk_temp |-> 65]

CpuFixed == IF stressed = "cpu" THEN CpuHot ELSE CpuNominal

GpuFixed == IF stressed = "gpu" THEN GpuHot ELSE GpuNominal

MemFixed == IF stressed = "mem" THEN MemHot ELSE MemNominal

StoFixed == IF stressed = "sto" THEN StoHot ELSE StoNominal

NextTwice ==
    \/ NoRunActive /\ queue = <<>> /\ run_complete_diagnosis
                   /\ UNCHANGED <<seen, snapshots>>
    \/ \E t \in Runs :
           /\ DiagStep(t, {CpuFixed}, {GpuFixed}, {MemFixed}, {StoFixed})
           /\ Publishes(t)
           /\ UNCHANGED seen
    \/ CbInsertReport /\ UNCHANGED <<seen, snapshots>>
    \/ CbUpdateAlertsTab /\ UNCHANGED <<seen, snapshots>>

SpecTwice == Init /\ [][NextTwice]_vars

NoLists == [alerts |-> <<>>, recommendations |-> <<>>]

\* C12: runs made in sequence on the same fixed readings all leave the same
\* alert list and the same recommendation list: besides the empty lists of
\* before the first run, the runs completed so far left one pair of lists,
\* and it is the pair the lists hold after a completed run.
C12_SameListsEachRun ==
    /\ Cardinality(snapshots \ {NoLists}) <= 1
    /\ \A t \in Runs : Completed(t) => Lists \in snapshots

\* C12 witness: the second run has completed on readings that raise alerts,
\* and the lists are those the first run left
C12_Witness ==
    /\ runs = 2 /\ Completed(2)
    /\ alerts # <<>>
    /\ snapshots = {NoLists, Lists}

----------------------------------------------------------------------------
(* Claims about single queries, under SpecDiag *)

\* run t has just made a query of component c (from diagnosis_thread or from
\* analyze) and the provider answered it
JustQueried(t, c) ==
    /\ dpc[t] \in {c, "an_" \o c}
    /\ dpc'[t] # dpc[t]

\* the alerts the step appended
NewAlerts == SubSeq(alerts', Len(alerts) + 1, Len(alerts'))

NNew(tipo, componente, metrica) ==
    Cardinality(Matching(NewAlerts, LAMBDA a : /\ a.tipo = tipo
                                               /\ a.componente = componente
                                               /\ a.metrica = metrica))

Bit(cond) == IF cond THEN 1 ELSE 0

\* the readable partitions of a storage reading whose usage satisfies Test
PartsWhere(r, Test(_)) ==
    Cardinality({i \in DOMAIN r.parts : r.parts[i].kind = "ok" /\ Test(r.parts[i].used)})

\* C13: one query raises alerts exactly by the table, the tiers excluding
\* each other: GPU temperature above 90 one CRITICO, above 80 and at most 90
\* one AVISO; disk space above 95% one CRITICO per partition, above 85% and
\* at most 95% one AVISO per partition; swap above 50% one AVISO; at or below
\* the warning limit none.
C13_AlertsByTable ==
    [][\A t \in Runs :
          /\ (JustQueried(t, "gpu") /\ GpuRead(dlocal'[t].read)) =>
                 /\ NNew("CRITICO", "GPU", "temperatura")
                        = Bit(dlocal'[t].read.temp > 90)
                 /\ NNew("AVISO", "GPU", "temperatura")
                        = Bit(dlocal'[t].read.temp > 80 /\ dlocal'[t].read.temp <= 90)
          /\ (JustQueried(t, "mem") /\ MemRead(dlocal'[t].read)) =>
                 /\ NNew("AVISO", "SWAP", "uso")
                        = Bit(dlocal'[t].read.swap # Absent /\ dlocal'[t].read.swap > Pct(50))
                 /\ NNew("CRITICO", "SWAP", "uso") = 0
          /\ (JustQueried(t, "sto") /\ StoRead(dlocal'[t].read)) =>
                 /\ NNew("CRITICO", "DISCO", "espaco")
                        = PartsWhere(dlocal'[t].read, LAMBDA u : u > Pct(95))
                 /\ NNew("AVISO", "DISCO", "espaco")
                        = PartsWhere(dlocal'[t].read,
                                     LAMBDA u : u > Pct(85) /\ u <= Pct(95))]_vars

\* C13 witness: a query of the GPU read 91 degrees and the list holds the
\* CRITICO alert it raised
C13_Witness ==
    \E t \in Runs :
        /\ dpc[t] = "mem"
        /\ dlocal[t].read.temp = 91
        /\ NAlerts("CRITICO", "GPU", "temperatura") = 1
        /\ NAlerts("AVISO", "GPU", "temperatura") = 0

\* C14 (as claimed): a storage query that finds the disk above 60 degrees
\* raises one critical disk temperature alert, above 50 and at most 60 one
\* warning, and at or below 50 none.
C14_DiskTempByTable ==
    [][\A t \in Runs :
          (JustQueried(t, "sto") /\ StoRead(dlocal'[t].read)) =>
              /\ NNew("CRITICO", "DISCO", "temperatura")
                     = Bit(dlocal'[t].read.disk_temp > 60)
              /\ NNew("AVISO", "DISCO", "temperatura")
                     = Bit(dlocal'[t].read.disk_temp > 50
                           /\ dlocal'[t].read.disk_temp <= 60)]_vars

\* the provider of component c failed the query that got reading r: its
\* library is missing or its call raised (for the GPU also: no GPU found)
ProviderFailed(c, r) ==
    CASE c = "cpu" -> ~available_libs.psutil \/ r.fail
      [] c = "gpu" -> ~GpuRead(r)
      [] c = "mem" -> ~MemRead(r)
      [] c = "sto" -> ~StoRead(r)

\* C15 (as claimed): a query whose provider failed returns a snapshot that
\* carries an error marker.
C15_FailureCarriesMarker ==
    [][\A t \in Runs : \A c \in Components :
          (JustQueried(t, c) /\ ProviderFailed(c, dlocal'[t].read)) =>
              dlocal'[t].last.erro # "absent"]_vars

\* C16 (as claimed): the snapshot of a CPU query that did not fail carries a
\* temperature field, a reading or an N/A marker, whatever the sensor call
\* did, and carries no error marker; the snapshot of one that failed carries
\* the error marker.
C16_CpuSnapshotComplete ==
    [][\A t \in Runs :
          JustQueried(t, "cpu") =>
              IF ProviderFailed("cpu", dlocal'[t].read)
              THEN dlocal'[t].last.erro # "absent"
              ELSE /\ dlocal'[t].last.temperatura # Absent
                   /\ dlocal'[t].last.erro = "absent"]_vars

----------------------------------------------------------------------------
(* Claims about the buffer and the end of a session, under SpecMon *)

Series == {"timestamps", "cpu_usage", "memory_usage", "cpu_temp", "gpu_usage",
           "gpu_temp"}

\* C17 (as claimed, its part about the running session; the six series are
\* indeed empty when start_monitoring returns): while a session is running,
\* every entry of the buffer was appended by a tick of that session, never
\* by a tick of an earlier one.
C17_EntriesOfRunningSession ==
    monitoring =>
        \A m \in Series : \A i \in DOMAIN monitoring_data[m] :
            monitoring_data[m][i].s = sessions

\* finish_monitoring has just published its summary
SummaryPublished ==
    /\ Len(monitoring_log') = Len(monitoring_log) + 1
    /\ Last(monitoring_log').kind = "fim"

Stats(list) == <<Mean1(list), Max1(list)>>

\* C18 (as claimed): the summary published at the end of a session holds
\* mean and max of CPU% and of memory% over the buffer, and mean and max of
\* GPU% whenever the buffer holds a GPU% sample.
C18_SummaryHasAllStats ==
    [][SummaryPublished =>
          /\ monitoring_data.cpu_usage # <<>> =>
                 Last(monitoring_log').cpu = Stats(monitoring_data.cpu_usage)
          /\ monitoring_data.memory_usage # <<>> =>
                 Last(monitoring_log').ram = Stats(monitoring_data.memory_usage)
          /\ monitoring_data.gpu_usage # <<>> =>
                 /\ "gpu" \in DOMAIN Last(monitoring_log')
                 /\ Last(monitoring_log').gpu = Stats(monitoring_data.gpu_usage)]_vars

\* no session is running and the last line of the log is a summary
IdleAfterSummary ==
    /\ ~monitoring
    /\ monitoring_log # <<>>
    /\ Last(monitoring_log).kind = "fim"

\* C19 (as claimed): finish_monitoring changes no series of the buffer, and
\* from the summary until the next start_monitoring (the next press of the
\* button) the buffer does not change.
C19_BufferKeptAfterSummary ==
    [][/\ SummaryPublished => monitoring_data' = monitoring_data
       /\ (IdleAfterSummary /\ presses' = presses) =>
              monitoring_data' = monitoring_data]_vars

\* ---------------------------------------------------------------
\* one diagnosis at a time

\* the runs whose diagnosis_thread body has started and not yet returned
Executing == {t \in Runs : dpc[t] \notin {"idle", "done"}}

\* C20: at most one diagnosis_thread body is executing at any time, whatever
\* the sequence of run_complete_diagnosis requests, so no two runs clear and
\* append to the alert and recommendation lists concurrently.
C20_OneDiagnosisAtATime == Cardinality(Executing) <= 1

----------------------------------------------------------------------------
(* Claims about the events of a tick, under SpecMon *)

\* thread s ends the tick it was in: it reaches time.sleep(2)
TickEnds(s) == mpc[s] = "sampling" /\ mpc'[s] = "sleeping"

\* the callbacks the step has scheduled
Scheduled == SubSeq(queue', Len(queue) + 1, Len(queue'))

\* the log events of one kind among them
EventsOf(kind) ==
    {Scheduled[i].line : i \in {j \in DOMAIN Scheduled :
                                   /\ Scheduled[j].cb = "log"
                                   /\ Scheduled[j].line.kind = kind}}

\* the values the buffer holds in a series for tick k of thread s, after the step
StoredFor(series, s, k) ==
    {monitoring_data'[series][i].v :
        i \in {j \in DOMAIN monitoring_data'[series] :
                  /\ monitoring_data'[series][j].s = s
                  /\ monitoring_data'[series][j].k = k}}

\* C21: in every tick of a session, a CPU event is emitted iff the CPU usage
\* of the tick exceeds 80%, and a RAM event iff the memory usage of the tick
\* exceeds 85% (strictly); each event carries the tick's timestamp.
C21_EventIffAboveLimit ==
    [][\A s \in Sessions :
          (OnlySession /\ TickEnds(s)) =>
              LET k == mlocal[s].ticks
              IN  /\ (EventsOf("cpu_alta") # {}) <=>
                         (\E v \in StoredFor("cpu_usage", s, k) : v > Pct(80))
                  /\ (EventsOf("ram_alta") # {}) <=>
                         (\E v \in StoredFor("memory_usage", s, k) : v > Pct(85))
                  /\ \A e \in EventsOf("cpu_alta") \cup EventsOf("ram_alta") :
                         e.hora = mlocal[s].current_time]_vars

\* thread s ends a tick in which an exception was raised
TickRaised(s) == TickEnds(s) /\ mlocal'[s].raised

\* C22: an exception raised inside a tick is caught in that tick, an error
\* event with the time is logged, and the session stays Running: the thread
\* goes to its sleep and then to the next loop test, the flag untouched.
C22_RaisedTickLogsAndGoesOn ==
    [][\A s \in Sessions :
          TickRaised(s) =>
              /\ \E e \in EventsOf("erro") : e.hora = now
              /\ monitoring' = monitoring
              /\ mlocal'[s].wake = now + SleepSecs]_vars

----------------------------------------------------------------------------
(* Claims about the shortest sessions, under SpecMon *)

\* mean and max of a series that holds at most one sample
SingleStats(list) == IF list = <<>> THEN <<>>
                     ELSE <<Fmt1(list[1].v), Fmt1(list[1].v)>>

----------------------------------------------------------------------------
(* save_monitoring_csv.  It runs on the foreground thread, so no callback  *)
(* and no button handler runs before it returns; a monitoring_thread goes  *)
(* on appending meanwhile.  One step writes the header, one step each row. *)

\* the '' written for a value the buffer does not hold
Blank == Absent

\* the emptiness test left out
NoDataNever == FALSE

\* line 1317: if not self.monitoring_data['timestamps']
NoData == monitoring_data.timestamps = <<>>

\* list[i] if i < len(list) else '' (lines 1344-1345), i counted from 1
At(list, i) == IF i <= Len(list) THEN list[i].v ELSE Blank

\* line 1332 and 1351: the CPU temperature column is written
HasCpuTemp == /\ monitoring_data.cpu_temp # <<>>
              /\ \E i \in DOMAIN monitoring_data.cpu_temp :
                     Truthy(monitoring_data.cpu_temp[i].v)

\* lines 1329-1335
Headers ==
    <<"Timestamp", "CPU_Usage_%", "Memory_Usage_%">>
    \o (IF monitoring_data.gpu_usage # <<>> THEN <<"GPU_Usage_%">> ELSE <<>>)
    \o (IF HasCpuTemp THEN <<"CPU_Temp_C">> ELSE <<>>)
    \o (IF monitoring_data.gpu_temp # <<>> THEN <<"GPU_Temp_C">> ELSE <<>>)

\* lines 1341-1359: the row of the timestamp at index i
Row(i) ==
    <<monitoring_data.timestamps[i].v, At(monitoring_data.cpu_usage, i),
      At(monitoring_data.memory_usage, i)>>
    \o (IF monitoring_data.gpu_usage # <<>>
        THEN <<At(monitoring_data.gpu_usage, i)>> ELSE <<>>)
    \o (IF HasCpuTemp THEN <<At(monitoring_data.cpu_temp, i)>> ELSE <<>>)
    \o (IF monitoring_data.gpu_temp # <<>>
        THEN <<At(monitoring_data.gpu_temp, i)>> ELSE <<>>)

\* the foreground thread is not inside save_monitoring_csv
ForegroundFree == csv.pc = "idle"

\* lines 1317-1337: the warning and return, or the file opened and its header
save_monitoring_csv ==
    /\ ForegroundFree
    /\ csv.exports < MaxExports
    /\ IF NoData
       THEN csv' = [csv EXCEPT !.exports = @ + 1, !.result = "aviso"]
       ELSE csv' = [pc |-> "rows", i |-> 1, headers |-> Headers, rows |-> <<>>,
                    result |-> "none", files |-> csv.files + 1,
                    exports |-> csv.exports + 1]
    /\ UNCHANGED <<display, monitoring, monitoring_data, monitoring_log, sessions,
                   mpc, mlocal, presses, now, queue>>
    /\ UNCHANGED <<envVars, diagVars>>

\* lines 1340-1363: the next entry of the list being iterated is written, or
\* the iteration is over, the file is closed and the success box shown
CsvRow ==
    /\ csv.pc = "rows"
    /\ IF csv.i <= Len(monitoring_data.timestamps)
       THEN csv' = [csv EXCEPT !.rows = Append(@, Row(csv.i)), !.i = @ + 1]
       ELSE csv' = [csv EXCEPT !.pc = "idle", !.result = "sucesso"]
    /\ UNCHANGED <<display, monitoring, monitoring_data, monitoring_log, sessions,
                   mpc, mlocal, presses, now, queue>>
    /\ UNCHANGED <<envVars, diagVars>>

\* SpecCsv: one monitoring session (after a press that failed on the
\* duration, or not), its callbacks, and exports at any moment
NextCsv ==
    \/ /\ ForegroundFree
       /\ sessions = 0 \/ monitoring
       /\ \E text \in DurationInputs : toggle_monitoring(text)
    \/ \E s \in Sessions : MonStep(s)
    \/ ForegroundFree /\ CbDisplay
    \/ ForegroundFree /\ CbLog
    \/ ForegroundFree /\ CbFinish
    \/ Advance
    \/ save_monitoring_csv
    \/ CsvRow

SpecCsv == Init /\ [][NextCsv]_vars

----------------------------------------------------------------------------
(* Claims about the CSV export, under SpecCsv *)

\* save_monitoring_csv is called and returns at once
ExportCalled == csv'.exports = csv.exports + 1

\* C24: an export when the timestamps list is empty shows the no-data
\* warning, writes no file, raises nothing and leaves the buffer unchanged.
C24_EmptyExportWarns ==
    [][(ExportCalled /\ monitoring_data.timestamps = <<>>) =>
          /\ csv'.result = "aviso"
          /\ csv'.pc = "idle"
          /\ csv'.files = csv.files
          /\ csv'.rows = csv.rows /\ csv'.headers = csv.headers
          /\ monitoring_data' = monitoring_data]_vars

\* an export of an empty buffer was answered with the warning, in a session
\* that is running and has not ticked yet
C24_Witness ==
    /\ csv.result = "aviso"
    /\ csv.files = 0
    /\ monitoring
    /\ monitoring_data.timestamps = <<>>

\* an export has just finished
ExportDone == csv.pc = "rows" /\ csv'.pc = "idle"

\* C27: a finished export is rectangular: one data row per entry of the
\* timestamps list, and as many fields in every row as in the header, also
\* when a monitoring_thread appends to the buffer during the export.
C27_CsvRectangular ==
    [][ExportDone =>
          /\ Len(csv'.rows) = Len(monitoring_data.timestamps)
          /\ \A r \in DOMAIN csv'.rows :
                 Len(csv'.rows[r]) = Len(csv'.headers)]_vars

----------------------------------------------------------------------------
(* SpecTear: one session whose queries all succeed, with the tick of the   *)
(* monitoring_thread taken in two steps, so that a display callback may    *)
(* run between the appends of one tick; without psutil the tick appends   *)
(* at most the GPU samples and is one step                                 *)

TearCpu == [kind |-> "ok", percent |-> Pct(50)]

TearSensor == [kind |-> "ok", temp |-> 60]

TearMem == [kind |-> "ok", percent |-> Pct(50)]

TearGpu == [kind |-> "ok", temp |-> 60, load |-> Pct(30)]

\* lines 1113-1119: cpu_percent returned, the CPU% and the CPU temperature
\* of the tick are appended
MonSampleCpu(s, cpu, sensor) ==
    LET k == mlocal[s].ticks
        d1 == Appended1(monitoring_data, "cpu_usage", cpu.percent, s, k)
    IN  /\ mpc[s] = "sampling"
        /\ available_libs.psutil
        /\ cpu.kind = "ok"
        /\ monitoring_data' =
               IF Truthy(get_cpu_temperature(sensor))
               THEN Appended1(d1, "cpu_temp", get_cpu_temperature(sensor), s, k)
               ELSE d1
        /\ MonLocal(s, "sampled_cpu", [mlocal[s] EXCEPT !.cpu_percent = cpu.percent])
        /\ UNCHANGED <<display, monitoring, monitoring_log, sessions, now, queue>>
        /\ UNCHANGED <<envVars, diagVars, presses, csv>>

\* lines 1122-1151: the memory reading, the GPU block, the callbacks, up to
\* the call of time.sleep(2)
MonSampleRest(s, mem, gpu, again) ==
    LET pub == Published(s, mlocal[s].cpu_percent, again)
        d3 == Appended1(monitoring_data, "memory_usage", mem.percent, s,
                        mlocal[s].ticks)
    IN  /\ mpc[s] = "sampled_cpu"
        /\ mem.kind = "ok"
        /\ Room(4)
        /\ monitoring_data' = GpuBlock(d3, s, gpu)
        /\ queue' = queue \o pub.calls \o (IF pub.raised THEN ErrorCallback ELSE <<>>)
        /\ MonLocal(s, "sleeping", [mlocal[s] EXCEPT !.wake = now + SleepSecs,
                                       !.raised = pub.raised])
        /\ UNCHANGED <<display, monitoring, monitoring_log, sessions, now>>
        /\ UNCHANGED <<envVars, diagVars, presses, csv>>

NextTear ==
    \/ /\ sessions = 0 \/ monitoring
       /\ \E text \in DurationInputs : toggle_monitoring(text)
    \/ \E s \in Sessions : MonBegin(s)
    \/ \E s \in Sessions : MonLoop(s)
    \/ /\ ~available_libs.psutil
       /\ \E s \in Sessions :
              MonSample(s, TearCpu, TearSensor, TearMem, TearGpu, TearMem)
    \/ \E s \in Sessions : MonSampleCpu(s, TearCpu, TearSensor)
    \/ \E s \in Sessions : MonSampleRest(s, TearMem, TearGpu, TearMem)
    \/ \E s \in Sessions : MonWake(s)
    \/ CbDisplay
    \/ CbLog
    \/ CbFinish
    \/ Advance

SpecTear == Init /\ [][NextTear]_vars

\* update_realtime_display runs
DisplayRuns == queue # <<>> /\ Head(queue).cb = "display" /\ queue' = Tail(queue)

\* the ticks (thread, number) the values it sets were read in
ShownFrom ==
    {<<Last(monitoring_data[m]).s, Last(monitoring_data[m]).k>> :
        m \in {x \in Metrics : monitoring_data[x] # <<>>}}

\* C25: the values one execution of update_realtime_display shows (CPU%,
\* CPU temperature, GPU%, GPU temperature, memory%) were all read in one
\* and the same tick, however the callback interleaves with the thread.
C25_DisplayOfOneTick ==
    [][DisplayRuns => Cardinality(ShownFrom) <= 1]_vars

----------------------------------------------------------------------------
(* SpecBoth: diagnoses made one after the other on fixed readings, and one *)
(* monitoring session whose every tick reads a CPU and a memory usage      *)
(* above the limits of its log events, in any interleaving                 *)

BothCpu == [kind |-> "ok", percent |-> Pct(81)]

BothSensor == [kind |-> "ok", temp |-> 70]

BothMem == [kind |-> "ok", percent |-> Pct(86)]

BothGpu == [kind |-> "ok", temp |-> 60, load |-> Pct(30)]

NextBoth ==
    \/ NoRunActive /\ run_complete_diagnosis /\ UNCHANGED <<seen, snapshots>>
    \/ \E t \in Runs : DiagStep(t, {CpuFixed}, {GpuFixed}, {MemFixed}, {StoFixed})
                       /\ UNCHANGED <<seen, snapshots>>
    \/ CbInsertReport /\ UNCHANGED <<seen, snapshots>>
    \/ CbUpdateAlertsTab /\ UNCHANGED <<seen, snapshots>>
    \/ /\ sessions = 0 \/ monitoring
       /\ \E text \in DurationInputs : toggle_monitoring(text)
    \/ \E s \in Sessions : MonBegin(s)
    \/ \E s \in Sessions : MonLoop(s)
    \/ \E s \in Sessions : MonSample(s, BothCpu, BothSensor, BothMem, BothGpu, BothMem)
    \/ \E s \in Sessions : MonWake(s)
    \/ CbDisplay
    \/ CbLog
    \/ CbFinish
    \/ Advance

SpecBoth == Init /\ [][NextBoth]_vars

\* a step of the sampling loop: a start, stop or finish of a session, a step
\* of a monitoring_thread, or one of its callbacks
MonitoringActs ==
    \/ monitoring' # monitoring
    \/ monitoring_data' # monitoring_data
    \/ monitoring_log' # monitoring_log
    \/ display' # display
    \/ sessions' # sessions
    \/ mpc' # mpc
    \/ mlocal' # mlocal

\* C26: no tick of a monitoring session (its call of get_cpu_temperature and
\* its high-CPU and high-RAM log events included) and no start, stop or
\* finish of a session changes the alerts list or the recommendations list.
C26_MonitoringKeepsAlertLists ==
    [][MonitoringActs => (alerts' = alerts /\ recommendations' = recommendations)]_vars

\* a diagnosis has left alerts and recommendations, and a session that
\* logged a high-CPU and a high-RAM event has been finished
C26_Witness ==
    /\ alerts # <<>>
    /\ recommendations # <<>>
    /\ IdleAfterSummary
    /\ \E i \in DOMAIN monitoring_log : monitoring_log[i].kind = "cpu_alta"
    /\ \E i \in DOMAIN monitoring_log : monitoring_log[i].kind = "ram_alta"

----------------------------------------------------------------------------
(* Claims about the end of a session, under SpecMon *)

\* the session that is Running goes to Idle
GoesIdle == monitoring /\ ~monitoring'

\* the button was pressed: toggle_monitoring called stop_monitoring
StopPressed == presses' = presses + 1

\* C28: a Running session goes to Idle only by its own stop or by its own
\* duration elapsing: finish_monitoring ends no session but the one whose
\* monitoring_thread has left its loop and scheduled it.
C28_EndedByOwnStopOrFinish ==
    [][GoesIdle => \/ StopPressed
                   \/ sessions > 0 /\ mpc[sessions] = "done"]_vars

\* C30: the threshold check of a tick uses the value recorded for the tick:
\* a RAM (or CPU) event emitted in tick i reports the memory% (or CPU%) the
\* buffer holds for tick i, and a stored value above its limit has its event.
C30_EventReportsStoredValue ==
    [][\A s \in Sessions :
          (OnlySession /\ TickEnds(s) /\ ~mlocal'[s].raised) =>
              LET k == mlocal[s].ticks
              IN  /\ \A e \in EventsOf("ram_alta") :
                         e.valor \in StoredFor("memory_usage", s, k)
                  /\ \A e \in EventsOf("cpu_alta") :
                         e.valor \in StoredFor("cpu_usage", s, k)
                  /\ \A v \in StoredFor("memory_usage", s, k) :
                         v > Pct(85) => EventsOf("ram_alta") # {}
                  /\ \A v \in StoredFor("cpu_usage", s, k) :
                         v > Pct(80) => EventsOf("cpu_alta") # {}]_vars

----------------------------------------------------------------------------
(* SpecLive: one monitoring session under fair scheduling: a thread that   *)
(* can take a step takes one, the event loop runs the callbacks that are   *)
(* scheduled, and time passes.  Nothing obliges the user to press a button. *)

NextLive ==
    \/ /\ sessions = 0 \/ monitoring
       /\ \E text \in DurationInputs : toggle_monitoring(text)
    \/ \E s \in Sessions : MonStep(s)
    \/ CbDisplay
    \/ CbLog
    \/ CbFinish
    \/ Advance

SpecLive ==
    /\ Init
    /\ [][NextLive]_vars
    /\ \A s \in Sessions : WF_vars(MonStep(s))
    /\ WF_vars(CbDisplay)
    /\ WF_vars(CbLog)
    /\ WF_vars(CbFinish)
    /\ WF_vars(Advance)

\* C29: every started session eventually returns to Idle: once
\* start_monitoring has set the session Running, the thread eventually
\* leaves its loop and finish_monitoring eventually runs, leaving monitoring
\* False and the summary published.
C29_StartedSessionEnds == monitoring ~> IdleAfterSummary

====
